---------------------------- MODULE Spec2Model ----------------------------
(***************************************************************************)
(* A model of src-tauri/src/lib.rs: the startup gate, the capture loop of  *)
(* startup / rust_capture, the encode tasks it spawns, the shared AppState *)
(* and the two query commands get_window and get_frame.                    *)
(*                                                                         *)
(* Actors: the loop task (one), the encode tasks (one per BGRA frame) and  *)
(* the command callers.  Each labelled step of the loop is one action; a   *)
(* Mutex is a variable naming its holder.                                  *)
(***************************************************************************)
EXTENDS Integers, Sequences, FiniteSets, TLC

(***************************************************************************)
(* Bounds of the model.                                                    *)
(***************************************************************************)
\* start_capture calls the model follows before it stops the loop
MaxStarts == 2
\* consecutive ticks on which the environment may show no "Rust" window
MaxIdle == 2
\* concurrent callers of the commands
NumCallers == 1
\* targets in one enumeration of get_all_targets
MaxTargets == 2
\* pixels of a source handed to the conversion
MaxPixels == 3
\* bytes the conversion buffer may hold before a conversion
MaxPrior == 6
\* pixels of an image handed to the encoder
MaxImagePixels == 2

(***************************************************************************)
(* Values.  Option<T> is a sequence of length 0 (None) or 1 (Some).        *)
(***************************************************************************)
None == <<>>

Some(x) == <<x>>

IsSome(o) == Len(o) = 1

Unwrap(o) == o[1]

\* scap::Target: a window or a display, with its id and its title
TargetSet ==
    { [kind |-> "Window",  id |-> 1, title |-> "Rust"],
      [kind |-> "Window",  id |-> 2, title |-> "Other"],
      [kind |-> "Display", id |-> 3, title |-> "Rust"] }

RECURSIVE SeqsUpTo(_, _)
SeqsUpTo(S, n) ==
    IF n = 0 THEN { <<>> }
    ELSE LET shorter == SeqsUpTo(S, n - 1)
         IN  shorter \cup { Append(s, x) : s \in shorter, x \in S }

\* what get_all_targets() may return
Enumerations == SeqsUpTo(TargetSet, MaxTargets)

\* scap::frame::Frame values get_next_frame may deliver: a BGRA frame whose
\* data fits the dimensions, one whose data is too short for them, one whose
\* data is too long for them, and a frame of another variant.
Frames ==
    { [variant |-> "BGRA", width |-> 1, height |-> 1, data |-> <<10, 20, 30, 255>>],
      [variant |-> "BGRA", width |-> 2, height |-> 1, data |-> <<7, 8, 9, 255>>],
      [variant |-> "BGRA", width |-> 1, height |-> 1,
       data |-> <<40, 50, 60, 255, 70, 80, 90, 255>>],
      [variant |-> "RGB",  width |-> 1, height |-> 1, data |-> <<10, 20, 30>>] }

Callers == 1 .. NumCallers

(***************************************************************************)
(* get_rust_target: the first enumerated target that is a window titled    *)
(* "Rust".                                                                 *)
(***************************************************************************)
IsRustWindow(target) == target.kind = "Window" /\ target.title = "Rust"

\* get_rust_target that returns the last match
get_rust_target_Last(all_targets) ==
    LET hits == { i \in 1 .. Len(all_targets) : IsRustWindow(all_targets[i]) }
    IN  IF hits = {} THEN None
        ELSE Some(all_targets[CHOOSE i \in hits : \A j \in hits : i >= j])

get_rust_target(all_targets) ==
    LET hits == { i \in 1 .. Len(all_targets) : IsRustWindow(all_targets[i]) }
    IN  IF hits = {} THEN None
        ELSE Some(all_targets[CHOOSE i \in hits : \A j \in hits : i <= j])

(***************************************************************************)
(* frame_to_base64 and its parts.                                          *)
(***************************************************************************)
\* buffer.clear() and the chunks_exact(4) loop: three bytes pushed per
\* complete chunk, a trailing incomplete chunk skipped
RECURSIVE PushChunks(_, _, _)
PushChunks(buffer, bgra_data, i) ==
    IF i + 3 > Len(bgra_data) THEN buffer
    ELSE PushChunks(buffer \o <<bgra_data[i], bgra_data[i + 1], bgra_data[i + 2]>>,
                    bgra_data, i + 4)

\* Clear that leaves the content in place
Clear_Keep(buffer) == buffer

\* Vec::clear: the length becomes zero
Clear(buffer) == SubSeq(buffer, 1, 0)

ConvertInto(buffer, bgra_data) == PushChunks(Clear(buffer), bgra_data, 1)

\* RgbImage::from_raw: None when the container is too small for the
\* dimensions
from_raw(width, height, buf) ==
    IF Len(buf) >= width * height * 3
    THEN Some([width |-> width, height |-> height, buf |-> buf])
    ELSE None

\* a u32 as four bytes, most significant first (the width and height fields
\* of a PNG header)
U32BE(x) ==
    <<(x \div 16777216) % 256, (x \div 65536) % 256, (x \div 256) % 256, x % 256>>

\* write_to(.., ImageFormat::Png), abstracted to a lossless container: the
\* width and the height followed by the width*height*3 sample bytes of the
\* image (the compression of the PNG stream is left out)
PngBytes(image) ==
    U32BE(image.width) \o U32BE(image.height)
        \o SubSeq(image.buf, 1, image.width * image.height * 3)

\* Base64NoPad with the padding of the PAD configuration: a last group of
\* one or two bytes is filled up to four symbols with the pad symbol, 64
RECURSIVE Base64NoPad_Pad(_)
Base64NoPad_Pad(bytes) ==
    IF Len(bytes) = 0 THEN <<>>
    ELSE IF Len(bytes) = 1
    THEN <<bytes[1] \div 4, (bytes[1] % 4) * 16, 64, 64>>
    ELSE IF Len(bytes) = 2
    THEN <<bytes[1] \div 4,
           (bytes[1] % 4) * 16 + bytes[2] \div 16,
           (bytes[2] % 16) * 4,
           64>>
    ELSE <<bytes[1] \div 4,
           (bytes[1] % 4) * 16 + bytes[2] \div 16,
           (bytes[2] % 16) * 4 + bytes[3] \div 64,
           bytes[3] % 64>>
         \o Base64NoPad_Pad(SubSeq(bytes, 4, Len(bytes)))

\* engine::GeneralPurpose(STANDARD, NO_PAD).encode: indices into the
\* standard alphabet, three bytes to four symbols, no padding
RECURSIVE Base64NoPad(_)
Base64NoPad(bytes) ==
    IF Len(bytes) = 0 THEN <<>>
    ELSE IF Len(bytes) = 1
    THEN <<bytes[1] \div 4, (bytes[1] % 4) * 16>>
    ELSE IF Len(bytes) = 2
    THEN <<bytes[1] \div 4,
           (bytes[1] % 4) * 16 + bytes[2] \div 16,
           (bytes[2] % 16) * 4>>
    ELSE <<bytes[1] \div 4,
           (bytes[1] % 4) * 16 + bytes[2] \div 16,
           (bytes[2] % 16) * 4 + bytes[3] \div 64,
           bytes[3] % 64>>
         \o Base64NoPad(SubSeq(bytes, 4, Len(bytes)))

\* the encoding half of frame_to_base64: from_raw(..).unwrap(), write_to as
\* PNG, encoder.encode.  None stands for the panic of the unwrap on from_raw
encode_rgb(rgb, width, height) ==
    LET image == from_raw(width, height, rgb)
    IN  IF IsSome(image) THEN Some(Base64NoPad(PngBytes(Unwrap(image))))
        ELSE None

frame_to_base64(buffer, bgra_data, width, height) ==
    encode_rgb(ConvertInto(buffer, bgra_data), width, height)

\* the "reusable" buffer of rust_capture: empty, cloned into every task
CaptureBuffer == <<>>

(***************************************************************************)
(* State.                                                                  *)
(***************************************************************************)
VARIABLES
    is_supported,       \* scap::is_supported()
    has_permission,     \* scap::has_permission()
    request_permission, \* scap::request_permission()
    pc,                 \* position of the loop task
    rust,               \* Option<Target>: result of get_rust_target
    capturer,           \* Option<Capturer>: [id, target, active]
    frame_count,        \* u32 local of rust_capture
    tasks,              \* encode tasks spawned and not finished
    window,             \* AppState.window
    window_lock,        \* holder of AppState.window's Mutex
    last_frame,         \* AppState.last_frame: Option<String>
    last_frame_lock,    \* holder of AppState.last_frame's Mutex
    cpc,                \* position of each command caller
    \* history
    builds,             \* Capturer::build calls that succeeded
    starts,             \* start_capture calls
    stops,              \* stop_capture calls
    failed,             \* ids of sessions whose get_next_frame returned Err
    since,              \* what the loop did since the last start_capture
    cycle,              \* outcome of the current tick
    idle_ticks,         \* consecutive ticks with no target before this one
    end_store,          \* last_frame at the end of the previous tick
    end_pending,        \* capture numbers of the tasks pending at that time
    store_by,           \* capture number of the task that wrote last_frame
    published,          \* store writes so far
    last_spawn,         \* capture number of the task spawned last
    ever_resolved,      \* get_rust_target was called
    last_op,            \* the last operation of the loop
    frame_of,           \* what get_next_frame returned, by capture number
    written,            \* capture numbers of the tasks that wrote the store
    \* a call of the conversion of frame_to_base64 on its own
    cprior,             \* the buffer before the call
    cbuf,               \* the buffer
    csrc,               \* the source of the last call
    conv_done,          \* a call was made
    \* calls of get_rust_target on their own
    enum_before,        \* the enumeration of the call before the last
    enum_now,           \* the enumeration of the last call
    target,             \* what the last call returned
    \* a call of the encoding of frame_to_base64 on its own, and its reader
    img,                \* the image: [width, height, buf]
    txt,                \* the text
    back,               \* Option: the image a reader decodes from the text
    enc_done            \* the encoding was made

env_vars == <<is_supported, has_permission, request_permission>>

conv_vars == <<cprior, cbuf, csrc, conv_done>>

resolve_vars == <<enum_before, enum_now, target>>

encode_vars == <<img, txt, back, enc_done>>

\* the variables of the calls of the functions on their own
fn_vars == <<conv_vars, resolve_vars, encode_vars>>

loop_vars == <<pc, rust, capturer, frame_count>>

store_vars == <<window, window_lock, last_frame, last_frame_lock>>

count_vars == <<builds, starts, stops, failed>>

tick_vars == <<since, cycle, idle_ticks, last_op>>

end_vars == <<end_store, end_pending>>

pub_vars == <<store_by, published>>

log_vars == <<frame_of, written>>

hist_vars == <<count_vars, tick_vars, end_vars, pub_vars, last_spawn,
               ever_resolved, log_vars>>

program_vars == <<env_vars, loop_vars, tasks, store_vars, cpc, hist_vars>>

vars == <<program_vars, fn_vars>>

Free == <<>>

\* since, right after a start_capture on session id
NothingSince(id) ==
    [session |-> id, stops |-> 0, resolved |-> FALSE, built |-> FALSE,
     slept |-> FALSE]

Pending == { t.n : t \in tasks }

\* the program as run() starts it
ProgramInit ==
    /\ is_supported \in BOOLEAN
    /\ has_permission \in BOOLEAN
    /\ request_permission \in BOOLEAN
    /\ pc = "check_supported"
    /\ rust = None
    /\ capturer = None
    /\ frame_count = 0
    /\ tasks = {}
    /\ window = ""
    /\ window_lock = Free
    /\ last_frame = None
    /\ last_frame_lock = Free
    /\ cpc = [c \in Callers |-> "idle"]
    /\ builds = 0
    /\ starts = 0
    /\ stops = 0
    /\ failed = {}
    /\ since = NothingSince(0)
    /\ cycle = "none"
    /\ idle_ticks = 0
    /\ end_store = None
    /\ end_pending = {}
    /\ store_by = 0
    /\ published = 0
    /\ last_spawn = 0
    /\ ever_resolved = FALSE
    /\ last_op = "none"
    /\ frame_of = <<>>
    /\ written = {}

\* no call of the conversion on its own
ConvRest == cprior = <<>> /\ cbuf = <<>> /\ csrc = <<>> /\ conv_done = FALSE

\* no call of get_rust_target on its own
ResolveRest == enum_before = <<>> /\ enum_now = <<>> /\ target = None

\* no call of the encoding on its own
EncodeRest ==
    /\ img = [width |-> 0, height |-> 0, buf |-> <<>>]
    /\ txt = <<>>
    /\ back = None
    /\ enc_done = FALSE

Init == ProgramInit /\ ConvRest /\ ResolveRest /\ EncodeRest

\* the program not started: the platform is not supported
ProgramRest ==
    ProgramInit /\ ~is_supported /\ ~has_permission /\ ~request_permission

(***************************************************************************)
(* startup: the two preconditions, then the outer loop.                    *)
(***************************************************************************)
\* if !scap::is_supported() { return; }
CheckSupported ==
    /\ pc = "check_supported"
    /\ pc' = IF is_supported THEN "check_permission" ELSE "returned"
    /\ UNCHANGED <<fn_vars, env_vars, rust, capturer, frame_count, tasks, store_vars,
                   cpc, hist_vars>>

\* if !scap::has_permission() { ... }
CheckPermission ==
    /\ pc = "check_permission"
    /\ pc' = IF has_permission THEN "resolve" ELSE "request_permission"
    /\ UNCHANGED <<fn_vars, env_vars, rust, capturer, frame_count, tasks, store_vars,
                   cpc, hist_vars>>

\* RequestPermission with the answer of the request ignored
RequestPermission_Ignore ==
    /\ pc = "request_permission"
    /\ pc' = "resolve"
    /\ UNCHANGED <<fn_vars, env_vars, rust, capturer, frame_count, tasks, store_vars,
                   cpc, hist_vars>>

\* if !scap::request_permission() { return; }
RequestPermission ==
    /\ pc = "request_permission"
    /\ pc' = IF request_permission THEN "resolve" ELSE "returned"
    /\ UNCHANGED <<fn_vars, env_vars, rust, capturer, frame_count, tasks, store_vars,
                   cpc, hist_vars>>

\* Resolve with the sleep skipped when no target is found
Resolve_NoSleep ==
    /\ pc = "resolve"
    /\ last_op' = "resolve"
    /\ \E all_targets \in Enumerations :
         LET found == get_rust_target(all_targets)
         IN  /\ IsSome(found) \/ idle_ticks < MaxIdle
             /\ rust' = found
             /\ pc' = IF IsSome(found) THEN "build" ELSE "resolve"
             /\ cycle' = IF IsSome(found) THEN "none" ELSE "idle"
    /\ since' = [since EXCEPT !.resolved = TRUE]
    /\ ever_resolved' = TRUE
    /\ UNCHANGED <<fn_vars, env_vars, log_vars, capturer, frame_count, tasks, store_vars, cpc,
                   count_vars, idle_ticks, end_vars, pub_vars, last_spawn>>

\* if let Some(rust) = get_rust_target() { rust_capture(..) }, else on to
\* the sleep of the outer loop
Resolve ==
    /\ pc = "resolve"
    /\ last_op' = "resolve"
    /\ \E all_targets \in Enumerations :
         LET found == get_rust_target(all_targets)
         IN  /\ IsSome(found) \/ idle_ticks < MaxIdle
             /\ rust' = found
             /\ pc' = IF IsSome(found) THEN "build" ELSE "sleep"
             /\ cycle' = IF IsSome(found) THEN "none" ELSE "idle"
    /\ since' = [since EXCEPT !.resolved = TRUE]
    /\ ever_resolved' = TRUE
    /\ UNCHANGED <<fn_vars, env_vars, log_vars, capturer, frame_count, tasks, store_vars, cpc,
                   count_vars, idle_ticks, end_vars, pub_vars, last_spawn>>

\* sleep(Duration::from_secs(1)) of the outer loop
Sleep ==
    /\ pc = "sleep"
    /\ last_op' = "sleep"
    /\ pc' = "resolve"
    /\ since' = [since EXCEPT !.slept = TRUE]
    /\ idle_ticks' = IF cycle = "idle" THEN idle_ticks + 1 ELSE 0
    /\ cycle' = "none"
    /\ end_store' = last_frame
    /\ end_pending' = Pending
    /\ UNCHANGED <<fn_vars, env_vars, log_vars, rust, capturer, frame_count, tasks, store_vars,
                   cpc, count_vars, pub_vars, last_spawn, ever_resolved>>

(***************************************************************************)
(* rust_capture.                                                           *)
(***************************************************************************)
\* Capturer::build(Options { target: Some(rust), .. }).unwrap(): the
\* unwrap panics on Err, which ends the task running startup
Build ==
    /\ pc = "build"
    /\ last_op' = "build"
    /\ \E built \in BOOLEAN :
         IF built
         THEN /\ capturer' = Some([id |-> builds + 1, target |-> Unwrap(rust),
                                   active |-> FALSE])
              /\ builds' = builds + 1
              /\ since' = [since EXCEPT !.built = TRUE]
              /\ pc' = "start"
         ELSE /\ pc' = "panicked"
              /\ UNCHANGED <<capturer, builds, since>>
    /\ rust' = None
    /\ frame_count' = 0
    /\ UNCHANGED <<fn_vars, env_vars, log_vars, tasks, store_vars, cpc, starts, stops, failed,
                   cycle, idle_ticks, end_vars, pub_vars, last_spawn,
                   ever_resolved>>

\* frame_count += 1; capturer.start_capture();  (frame_count is a u32 that
\* is only printed; MaxStarts keeps it far below the u32 limit)
StartCapture ==
    /\ pc = "start"
    /\ last_op' = "start_capture"
    /\ starts < MaxStarts
    /\ frame_count' = frame_count + 1
    /\ capturer' = Some([Unwrap(capturer) EXCEPT !.active = TRUE])
    /\ starts' = starts + 1
    /\ since' = NothingSince(Unwrap(capturer).id)
    /\ pc' = "get_next_frame"
    /\ UNCHANGED <<fn_vars, env_vars, log_vars, rust, tasks, store_vars, cpc, builds, stops,
                   failed, cycle, idle_ticks, end_vars, pub_vars, last_spawn,
                   ever_resolved>>

\* Ok(frame) with frame a Frame::BGRA: the encode task is spawned with the
\* frame data and a clone of the buffer
FrameOkBGRA ==
    /\ pc = "get_next_frame"
    /\ last_op' = "get_next_frame"
    /\ \E frame \in { f \in Frames : f.variant = "BGRA" } :
         /\ tasks' = tasks \cup { [n |-> starts, frame_data |-> frame,
                                   buffer |-> CaptureBuffer, at |-> "encode",
                                   base64_image |-> <<>>] }
         /\ frame_of' = Append(frame_of, frame)
    /\ last_spawn' = starts
    /\ cycle' = "ok"
    /\ pc' = "stop"
    /\ UNCHANGED <<fn_vars, env_vars, written, rust, capturer, frame_count, store_vars, cpc,
                   count_vars, since, idle_ticks, end_vars, pub_vars,
                   ever_resolved>>

\* FrameOkOther that spawns the encode task for a frame of any variant
FrameOkOther_Spawn ==
    /\ pc = "get_next_frame"
    /\ last_op' = "get_next_frame"
    /\ \E frame \in { f \in Frames : f.variant # "BGRA" } :
         /\ tasks' = tasks \cup { [n |-> starts, frame_data |-> frame,
                                   buffer |-> CaptureBuffer, at |-> "encode",
                                   base64_image |-> <<>>] }
         /\ frame_of' = Append(frame_of, frame)
    /\ cycle' = "ok"
    /\ pc' = "stop"
    /\ UNCHANGED <<fn_vars, env_vars, written, rust, capturer, frame_count, store_vars,
                   cpc, count_vars, since, idle_ticks, end_vars, pub_vars,
                   last_spawn, ever_resolved>>

\* Ok(frame) with frame of another variant: the if let does not match
FrameOkOther ==
    /\ pc = "get_next_frame"
    /\ last_op' = "get_next_frame"
    /\ \E frame \in { f \in Frames : f.variant # "BGRA" } :
         frame_of' = Append(frame_of, frame)
    /\ cycle' = "ok"
    /\ pc' = "stop"
    /\ UNCHANGED <<fn_vars, env_vars, written, rust, capturer, frame_count, tasks, store_vars,
                   cpc, count_vars, since, idle_ticks, end_vars, pub_vars,
                   last_spawn, ever_resolved>>

\* FrameErr that also empties the store
FrameErr_ClearStore ==
    /\ pc = "get_next_frame"
    /\ last_op' = "get_next_frame"
    /\ failed' = failed \cup { Unwrap(capturer).id }
    /\ frame_of' = Append(frame_of, [variant |-> "Err"])
    /\ cycle' = "err"
    /\ pc' = "stop_err"
    /\ last_frame' = None
    /\ UNCHANGED <<fn_vars, env_vars, written, rust, capturer, frame_count, tasks, window,
                   window_lock, last_frame_lock, cpc, builds, starts, stops,
                   since, idle_ticks, end_vars, pub_vars, last_spawn,
                   ever_resolved>>

\* Err(e): on to the stop_capture and break of the Err arm
FrameErr ==
    /\ pc = "get_next_frame"
    /\ last_op' = "get_next_frame"
    /\ failed' = failed \cup { Unwrap(capturer).id }
    /\ frame_of' = Append(frame_of, [variant |-> "Err"])
    /\ cycle' = "err"
    /\ pc' = "stop_err"
    /\ UNCHANGED <<fn_vars, env_vars, written, rust, capturer, frame_count, tasks, store_vars,
                   cpc, builds, starts, stops, since, idle_ticks, end_vars,
                   pub_vars, last_spawn, ever_resolved>>

\* StopAndBreak without the stop_capture
StopAndBreak_SkipStop ==
    /\ pc = "stop_err"
    /\ capturer' = None
    /\ pc' = "sleep"
    /\ UNCHANGED <<fn_vars, env_vars, log_vars, rust, frame_count, tasks, store_vars, cpc,
                   count_vars, tick_vars, end_vars, pub_vars, last_spawn,
                   ever_resolved>>

\* StopAndBreak without the break: the inner loop goes on with the session
StopAndBreak_Continue ==
    /\ pc = "stop_err"
    /\ last_op' = "stop_capture"
    /\ stops' = stops + 1
    /\ since' = [since EXCEPT !.stops = @ + 1]
    /\ capturer' = Some([Unwrap(capturer) EXCEPT !.active = FALSE])
    /\ pc' = "sleep_capture"
    /\ UNCHANGED <<fn_vars, env_vars, log_vars, rust, frame_count, tasks, store_vars, cpc,
                   builds, starts, failed, cycle, idle_ticks, end_vars,
                   pub_vars, last_spawn, ever_resolved>>

\* StopAndBreak with the stopped session kept alive after the return
StopAndBreak_KeepSession ==
    /\ pc = "stop_err"
    /\ last_op' = "stop_capture"
    /\ stops' = stops + 1
    /\ since' = [since EXCEPT !.stops = @ + 1]
    /\ capturer' = Some([Unwrap(capturer) EXCEPT !.active = FALSE])
    /\ pc' = "sleep"
    /\ UNCHANGED <<fn_vars, env_vars, log_vars, rust, frame_count, tasks, store_vars, cpc,
                   builds, starts, failed, cycle, idle_ticks, end_vars,
                   pub_vars, last_spawn, ever_resolved>>

\* capturer.stop_capture(); break;  rust_capture returns, dropping the
\* capturer, and startup goes on to its sleep
StopAndBreak ==
    /\ pc = "stop_err"
    /\ last_op' = "stop_capture"
    /\ stops' = stops + 1
    /\ since' = [since EXCEPT !.stops = @ + 1]
    /\ capturer' = None
    /\ pc' = "sleep"
    /\ UNCHANGED <<fn_vars, env_vars, log_vars, rust, frame_count, tasks, store_vars, cpc,
                   builds, starts, failed, cycle, idle_ticks, end_vars,
                   pub_vars, last_spawn, ever_resolved>>

\* StopCapture that goes on to the next start_capture without the sleep
StopCapture_NoSleep ==
    /\ pc = "stop"
    /\ last_op' = "stop_capture"
    /\ stops' = stops + 1
    /\ since' = [since EXCEPT !.stops = @ + 1]
    /\ capturer' = Some([Unwrap(capturer) EXCEPT !.active = FALSE])
    /\ pc' = "start"
    /\ UNCHANGED <<fn_vars, env_vars, log_vars, rust, frame_count, tasks, store_vars, cpc,
                   builds, starts, failed, cycle, idle_ticks, end_vars,
                   pub_vars, last_spawn, ever_resolved>>

\* capturer.stop_capture(); after the match
StopCapture ==
    /\ pc = "stop"
    /\ last_op' = "stop_capture"
    /\ stops' = stops + 1
    /\ since' = [since EXCEPT !.stops = @ + 1]
    /\ capturer' = Some([Unwrap(capturer) EXCEPT !.active = FALSE])
    /\ pc' = "sleep_capture"
    /\ UNCHANGED <<fn_vars, env_vars, log_vars, rust, frame_count, tasks, store_vars, cpc,
                   builds, starts, failed, cycle, idle_ticks, end_vars,
                   pub_vars, last_spawn, ever_resolved>>

\* SleepCapture that leaves rust_capture after every frame
SleepCapture_Return ==
    /\ pc = "sleep_capture"
    /\ last_op' = "sleep"
    /\ pc' = "resolve"
    /\ capturer' = None
    /\ since' = [since EXCEPT !.slept = TRUE]
    /\ idle_ticks' = 0
    /\ cycle' = "none"
    /\ end_store' = last_frame
    /\ end_pending' = Pending
    /\ UNCHANGED <<fn_vars, env_vars, log_vars, rust, frame_count, tasks, store_vars, cpc,
                   count_vars, pub_vars, last_spawn, ever_resolved>>

\* std::thread::sleep(Duration::from_secs(1)); then the inner loop again
SleepCapture ==
    /\ pc = "sleep_capture"
    /\ last_op' = "sleep"
    /\ pc' = "start"
    /\ since' = [since EXCEPT !.slept = TRUE]
    /\ idle_ticks' = 0
    /\ cycle' = "none"
    /\ end_store' = last_frame
    /\ end_pending' = Pending
    /\ UNCHANGED <<fn_vars, env_vars, log_vars, rust, capturer, frame_count, tasks, store_vars,
                   cpc, count_vars, pub_vars, last_spawn, ever_resolved>>

\* TaskEncode that takes the lock of last_frame before it encodes
TaskEncode_UnderLock(t) ==
    /\ t \in tasks
    /\ t.at = "encode"
    /\ last_frame_lock = Free
    /\ last_frame_lock' = <<"task", t.n>>
    /\ tasks' = (tasks \ {t}) \cup { [t EXCEPT !.at = "encode_locked"] }
    /\ UNCHANGED <<fn_vars, env_vars, loop_vars, window, window_lock, last_frame, cpc,
                   hist_vars>>

(***************************************************************************)
(* The encode task spawned for a BGRA frame (task::spawn in rust_capture). *)
(***************************************************************************)
\* let base64_image = frame_to_base64(..): a panic ends this task alone
TaskEncode(t) ==
    /\ t \in tasks
    /\ t.at = "encode"
    /\ LET base64_image == frame_to_base64(t.buffer, t.frame_data.data,
                                           t.frame_data.width,
                                           t.frame_data.height)
       IN  tasks' = IF IsSome(base64_image)
                    THEN (tasks \ {t}) \cup
                         { [t EXCEPT !.at = "lock",
                                     !.base64_image = Unwrap(base64_image)] }
                    ELSE tasks \ {t}
    /\ UNCHANGED <<fn_vars, env_vars, loop_vars, store_vars, cpc, hist_vars>>

\* TaskLock that does not wait for the holder of the lock
TaskLock_NoWait(t) ==
    /\ t \in tasks
    /\ t.at = "lock"
    /\ last_frame_lock' = <<"task", t.n>>
    /\ tasks' = (tasks \ {t}) \cup { [t EXCEPT !.at = "store"] }
    /\ UNCHANGED <<fn_vars, env_vars, loop_vars, window, window_lock, last_frame, cpc,
                   hist_vars>>

\* let mut last_frame = state.last_frame.lock().unwrap();
TaskLock(t) ==
    /\ t \in tasks
    /\ t.at = "lock"
    /\ last_frame_lock = Free
    /\ last_frame_lock' = <<"task", t.n>>
    /\ tasks' = (tasks \ {t}) \cup { [t EXCEPT !.at = "store"] }
    /\ UNCHANGED <<fn_vars, env_vars, loop_vars, window, window_lock, last_frame, cpc,
                   hist_vars>>

\* TaskStore that leaves the store alone when a later frame was published
TaskStore_OnlyNewer(t) ==
    /\ t \in tasks
    /\ t.at = "store"
    /\ last_frame' = IF t.n > store_by THEN Some(t.base64_image) ELSE last_frame
    /\ last_frame_lock' = Free
    /\ tasks' = tasks \ {t}
    /\ store_by' = IF t.n > store_by THEN t.n ELSE store_by
    /\ published' = published + 1
    /\ written' = written \cup { t.n }
    /\ UNCHANGED <<fn_vars, env_vars, loop_vars, window, window_lock, cpc, count_vars,
                   tick_vars, end_vars, last_spawn, ever_resolved, frame_of>>

\* *last_frame = Some(base64_image); the guard is dropped and the task ends
TaskStore(t) ==
    /\ t \in tasks
    /\ t.at = "store"
    /\ last_frame' = Some(t.base64_image)
    /\ last_frame_lock' = Free
    /\ tasks' = tasks \ {t}
    /\ store_by' = t.n
    /\ published' = published + 1
    /\ written' = written \cup { t.n }
    /\ UNCHANGED <<fn_vars, env_vars, loop_vars, window, window_lock, cpc, count_vars,
                   tick_vars, end_vars, last_spawn, ever_resolved, frame_of>>

(***************************************************************************)
(* The commands.                                                           *)
(***************************************************************************)
\* get_window: let window = state.window.lock().unwrap();
GetWindowLock(c) ==
    /\ cpc[c] = "idle"
    /\ window_lock = Free
    /\ window_lock' = <<"caller", c>>
    /\ cpc' = [cpc EXCEPT ![c] = "get_window"]
    /\ UNCHANGED <<fn_vars, env_vars, loop_vars, tasks, window, last_frame,
                   last_frame_lock, hist_vars>>

\* Ok(window.clone()): what get_window returns, read under the lock
get_window_result == [ok |-> TRUE, val |-> window]

\* get_window: the result is returned and the guard dropped
GetWindowReturn(c) ==
    /\ cpc[c] = "get_window"
    /\ window_lock' = Free
    /\ cpc' = [cpc EXCEPT ![c] = "idle"]
    /\ UNCHANGED <<fn_vars, env_vars, loop_vars, tasks, window, last_frame,
                   last_frame_lock, hist_vars>>

\* get_frame: let frame = state.last_frame.lock().unwrap();
GetFrameLock(c) ==
    /\ cpc[c] = "idle"
    /\ last_frame_lock = Free
    /\ last_frame_lock' = <<"caller", c>>
    /\ cpc' = [cpc EXCEPT ![c] = "get_frame"]
    /\ UNCHANGED <<fn_vars, env_vars, loop_vars, tasks, window, window_lock,
                   last_frame, hist_vars>>

\* match frame.clone() { Some(data) => Ok(data), None => Err(..) }: what
\* get_frame returns, read under the lock
get_frame_result ==
    IF IsSome(last_frame)
    THEN [ok |-> TRUE, val |-> Unwrap(last_frame)]
    ELSE [ok |-> FALSE, val |-> "No frame captured yet"]

\* GetFrameReturn that takes the frame out of the store
GetFrameReturn_Take(c) ==
    /\ cpc[c] = "get_frame"
    /\ last_frame' = None
    /\ last_frame_lock' = Free
    /\ cpc' = [cpc EXCEPT ![c] = "idle"]
    /\ UNCHANGED <<fn_vars, env_vars, loop_vars, tasks, window, window_lock,
                   hist_vars>>

\* get_frame: the result is returned and the guard dropped
GetFrameReturn(c) ==
    /\ cpc[c] = "get_frame"
    /\ last_frame_lock' = Free
    /\ cpc' = [cpc EXCEPT ![c] = "idle"]
    /\ UNCHANGED <<fn_vars, env_vars, loop_vars, tasks, window, window_lock,
                   last_frame, hist_vars>>

(***************************************************************************)
(* The specification.                                                      *)
(***************************************************************************)
LoopStep ==
    \/ CheckSupported
    \/ CheckPermission
    \/ RequestPermission
    \/ Resolve
    \/ Sleep
    \/ Build
    \/ StartCapture
    \/ FrameOkBGRA
    \/ FrameOkOther
    \/ FrameErr
    \/ StopAndBreak
    \/ StopCapture
    \/ SleepCapture

TaskStep == \E t \in tasks : TaskEncode(t) \/ TaskLock(t) \/ TaskStore(t)

CallerStep ==
    \E c \in Callers :
        \/ GetWindowLock(c)
        \/ GetWindowReturn(c)
        \/ GetFrameLock(c)
        \/ GetFrameReturn(c)

Next == LoopStep \/ TaskStep \/ CallerStep

Spec == Init /\ [][Next]_vars

(***************************************************************************)
(* Properties.                                                             *)
(***************************************************************************)
Active == IsSome(capturer) /\ Unwrap(capturer).active

\* the positions of the loop task before the loop
GatePcs == { "check_supported", "check_permission", "request_permission" }

\* its positions in the loop
LoopPcs == { "resolve", "sleep", "build", "start", "get_next_frame",
             "stop_err", "stop", "sleep_capture" }

\* C1: every start_capture is followed by exactly one stop_capture before
\* the next start_capture and before any sleep, after Ok and after Err: at
\* every sleep and at every start the session is not active and starts
\* equal stops; the session is active exactly between its start and its stop.
C1_SessionBracketing ==
    /\ pc \in { "sleep", "sleep_capture", "start" }
         => ~Active /\ starts = stops /\ (starts > 0 => since.stops = 1)
    /\ pc \in { "get_next_frame", "stop", "stop_err" }
         => Active /\ starts = stops + 1 /\ since.stops = 0
    /\ since.stops <= 1

\* the loop sleeps after a failed get_next_frame, a second cycle
C1_Witness == pc = "sleep" /\ cycle = "err" /\ starts = 2 /\ stops = 2

\* C2 as stated: before every start_capture but the first the target was
\* resolved again and a new session built since the previous start_capture.
C2_FreshSessionEveryStart ==
    [][(StartCapture /\ starts > 0)
         => /\ since.resolved
            /\ since.built
            /\ Unwrap(capturer).id # since.session]_vars

\* C2 amended: after a get_next_frame that failed, the next start_capture
\* comes after a target resolution and a build, on a new session; after one
\* that succeeded, it is on the same session with no resolution and no
\* build in between.
C2_FreshSessionAfterError ==
    [][(StartCapture /\ starts > 0)
         => IF since.session \in failed
            THEN /\ since.resolved
                 /\ since.built
                 /\ Unwrap(capturer).id \notin failed
            ELSE /\ ~since.resolved
                 /\ ~since.built
                 /\ Unwrap(capturer).id = since.session]_vars

\* the second start_capture is on a session built after the first failed
C2_Witness ==
    /\ pc = "get_next_frame"
    /\ starts = 2
    /\ failed = {1}
    /\ Unwrap(capturer).id = 2

\* C3: a session whose get_next_frame returned Err is stopped and dropped:
\* it exists only until the stop_capture of the Err arm, no start_capture
\* or get_next_frame is issued on it, and the loop then sleeps, resolves
\* and builds with no session in hand.
C3_FailedSessionDiscarded ==
    /\ (IsSome(capturer) /\ Unwrap(capturer).id \in failed) => pc = "stop_err"
    /\ cycle = "err" => pc \in { "stop_err", "sleep" }
    /\ pc \in { "sleep", "resolve", "build" } => capturer = None
    /\ pc = "build" => IsSome(rust)
    /\ \A id \in failed : id <= builds

\* a new session is started after the first one failed
C3_Witness ==
    /\ 1 \in failed
    /\ IsSome(capturer)
    /\ Unwrap(capturer).id = 2
    /\ Active

\* C4 as stated: at the end of a tick whose get_next_frame returned Err (the
\* loop is in the sleep that ends it) the store is what it was at the end of
\* the previous tick.
C4_StoreUnchangedOnError ==
    (cycle = "err" /\ pc = "sleep") => last_frame = end_store

\* C4 amended: a tick whose get_next_frame returned Err spawns no encode
\* task and writes nothing; the store differs from its value at the end of
\* the previous tick only by the publication of an encode task that was
\* pending then.
C4_ErrorTickWritesNothing ==
    cycle = "err"
      => /\ last_spawn < starts
         /\ Pending \subseteq end_pending
         /\ last_frame # end_store => store_by \in end_pending

\* a failed tick during which a task of an earlier tick published
C4_Witness ==
    /\ cycle = "err"
    /\ pc = "sleep"
    /\ last_frame # end_store
    /\ store_by = 1

C6_BuildFailureContained ==
    [][(Build /\ capturer' = None) => (pc' = "sleep" /\ last_frame' = last_frame)]_vars

\* C7: once the loop has begun, the loop task stays in the loop.
C7_LoopNeverEnds == ever_resolved => pc \in LoopPcs

\* the startup gate is closed
GateClosed == ~is_supported \/ (~has_permission /\ ~request_permission)

\* C8: with the gate closed the loop never begins: no resolution, build,
\* start_capture or store write, and get_frame returns the error; with the
\* platform supported and the permission granted on request, startup does
\* not return.
C8_StartupGate ==
    /\ GateClosed
         => /\ pc \in GatePcs \cup { "returned" }
            /\ ~ever_resolved
            /\ builds = 0
            /\ starts = 0
            /\ published = 0
            /\ tasks = {}
            /\ ~get_frame_result.ok
    /\ ~GateClosed => pc # "returned"
    /\ (is_supported /\ ~has_permission /\ request_permission)
         => pc \in GatePcs \cup LoopPcs \cup { "panicked" }

\* startup returned after the request was denied, and get_frame is called
C8_Witness ==
    /\ pc = "returned"
    /\ is_supported
    /\ ~has_permission
    /\ \E c \in Callers : cpc[c] = "get_frame"

\* C9: get_frame returns the error exactly when no encode task has
\* published, and otherwise Ok with what the store holds.
C9_FrameAvailableIffPublished ==
    /\ get_frame_result.ok <=> published > 0
    /\ get_frame_result.ok
         => IsSome(last_frame) /\ get_frame_result.val = Unwrap(last_frame)

\* get_frame returns Ok after two publications
C9_Witness ==
    /\ published = 2
    /\ \E c \in Callers : cpc[c] = "get_frame"
    /\ get_frame_result.ok

\* C10: while the loop holds a session on a target, get_window returns
\* that target's label.
C10_WindowIsTrackedTarget ==
    (IsSome(capturer) /\ \E c \in Callers : cpc[c] = "get_window")
      => get_window_result.val = Unwrap(capturer).target.title

(***************************************************************************)
(* The claims about the program, continued.                                *)
(***************************************************************************)
\* C11: at most one capture session is active at any time: the sessions
\* started and not yet stopped number 0 or 1, the one that is active is the
\* last one built, and a session is built only when the previous one has
\* been stopped and dropped.
C11_AtMostOneSession ==
    /\ starts - stops \in { 0, 1 }
    /\ Active <=> starts = stops + 1
    /\ IsSome(capturer) => Unwrap(capturer).id = builds
    /\ pc \in { "resolve", "sleep", "build" }
         => capturer = None /\ starts = stops

\* the second session is active, the first stopped and dropped
C11_Witness ==
    /\ builds = 2
    /\ Active
    /\ Unwrap(capturer).id = 2
    /\ stops = 1
    /\ failed = { 1 }

\* C12: whatever the interleaving of encode tasks and get_frame calls, a
\* get_frame reads the store while no task is assigning to it, and what it
\* returns is the not-available error or the whole encoding of one frame
\* that get_next_frame returned.
C12_WholeValue ==
    \A c \in Callers :
        cpc[c] = "get_frame"
          => /\ last_frame_lock = <<"caller", c>>
             /\ \A t \in tasks : t.at # "store"
             /\ get_frame_result.ok
                  => \E n \in 1 .. Len(frame_of) :
                       /\ frame_of[n].variant = "BGRA"
                       /\ Some(get_frame_result.val) =
                            frame_to_base64(CaptureBuffer, frame_of[n].data,
                                            frame_of[n].width,
                                            frame_of[n].height)
             /\ ~get_frame_result.ok
                  => get_frame_result.val = "No frame captured yet"

\* a get_frame reads a published frame while the task of the next frame
\* waits for the lock
C12_Witness ==
    /\ \E c \in Callers : cpc[c] = "get_frame"
    /\ get_frame_result.ok
    /\ published = 1
    /\ \E t \in tasks : t.at = "lock" /\ t.n # store_by

\* C13: get_window and get_frame change nothing but the lock they take and
\* their own position: not the store, not the loop, not the session, no
\* task, no count of resolver or session calls.  The lock of window is never
\* taken by the loop side; the lock of last_frame is held by a task only
\* when the assignment is all that task has left to do, so not across
\* get_next_frame, the conversion, the encoding or a sleep; no caller holds
\* both locks; and whoever holds a lock can release it.
C13_QueriesNeverTriggerOrBlock ==
    /\ [][CallerStep => UNCHANGED <<window, last_frame, env_vars, loop_vars,
                                    tasks, hist_vars>>]_vars
    /\ [](window_lock # Free
            => \E c \in Callers :
                 /\ window_lock = <<"caller", c>>
                 /\ cpc[c] = "get_window"
                 /\ last_frame_lock # <<"caller", c>>
                 /\ ENABLED GetWindowReturn(c))
    /\ [](last_frame_lock # Free
            => \/ \E c \in Callers :
                    /\ last_frame_lock = <<"caller", c>>
                    /\ cpc[c] = "get_frame"
                    /\ ENABLED GetFrameReturn(c)
               \/ \E t \in tasks :
                    /\ last_frame_lock = <<"task", t.n>>
                    /\ t.at = "store"
                    /\ ENABLED TaskStore(t))

\* a get_frame holds the lock while the session is active, the loop waits
\* for a frame and the task of the frame before is still encoding
C13_Witness ==
    /\ \E c \in Callers : last_frame_lock = <<"caller", c>>
    /\ pc = "get_next_frame"
    /\ Active
    /\ \E t \in tasks : t.at = "encode"

\* C15 as stated: a frame whose converted buffer is not width*height*3
\* bytes long, shorter or longer, fails to encode and is dropped: its task
\* never gets past the encoding, never takes the lock and never writes the
\* store.
C15_WrongLengthNeverPublished ==
    \A n \in 1 .. Len(frame_of) :
        LET frame == frame_of[n]
        IN  (/\ frame.variant = "BGRA"
             /\ Len(ConvertInto(CaptureBuffer, frame.data))
                  # frame.width * frame.height * 3)
              => /\ n \notin written
                 /\ store_by # n
                 /\ \A t \in tasks : t.n = n => t.at = "encode"

\* C18: publication is last-writer-wins with no ordering check: a task
\* that ends holding the lock has put its own encoding into the store,
\* whichever frames were published before, so the store holds the encoding
\* of the task that wrote last, not of the frame captured last.
C18_LastWriterWins ==
    [][\A t \in tasks :
          (t.at = "store" /\ t \notin tasks')
            => /\ last_frame' = Some(t.base64_image)
               /\ store_by' = t.n
               /\ t.base64_image =
                    Unwrap(frame_to_base64(CaptureBuffer, frame_of[t.n].data,
                                           frame_of[t.n].width,
                                           frame_of[t.n].height))]_vars

\* frame 2 was published first and frame 1 after it: the store holds the
\* encoding of frame 1, which differs from that of frame 2
C18_Witness ==
    /\ written = { 1, 2 }
    /\ store_by = 1
    /\ last_frame = frame_to_base64(CaptureBuffer, frame_of[1].data,
                                    frame_of[1].width, frame_of[1].height)
    /\ last_frame # frame_to_base64(CaptureBuffer, frame_of[2].data,
                                    frame_of[2].width, frame_of[2].height)

\* C19: pacing.  A start_capture that is not the first comes after a sleep
\* made since the start_capture before it; a target resolution that is not
\* the first comes right after the sleep of the outer loop, whether the
\* resolution before found no target or led to a capture that failed; and a
\* sleep is never held up by encode tasks that have not finished.
C19_Pacing ==
    /\ [][(starts' = starts + 1 /\ starts > 0) => since.slept]_vars
    /\ [][(pc = "resolve" /\ last_op' = "resolve" /\ ever_resolved)
            => last_op = "sleep"]_vars
    /\ [](pc = "sleep" => ENABLED Sleep)
    /\ [](pc = "sleep_capture" => ENABLED SleepCapture)

\* the sleep after a capture is over and the loop is about to start the
\* session again while the task of the frame just captured still encodes
C19_Witness ==
    /\ pc = "start"
    /\ starts = 1
    /\ last_op = "sleep"
    /\ since.slept
    /\ \E t \in tasks : t.n = starts /\ t.at = "encode"

\* C20: only a frame of the BGRA variant is encoded and published, and
\* then by one task that writes the store once: every task belongs to a
\* BGRA frame that get_next_frame returned, no frame has two tasks, a task
\* that has written is gone, and the writes are as many as the frames
\* written.  An Ok frame of another variant spawns no task and leaves the
\* store as it is, the loop going on to stop the session; the next
\* start_capture comes after that one stop and a sleep, on the same session,
\* with no build in between.
C20_OnlyBgraPublishedOnce ==
    /\ [](\A t \in tasks :
            /\ t.n \in 1 .. Len(frame_of)
            /\ frame_of[t.n].variant = "BGRA"
            /\ t.frame_data = frame_of[t.n]
            /\ \A u \in tasks : u.n = t.n => u = t)
    /\ [](\A n \in written :
            /\ n \in 1 .. Len(frame_of)
            /\ frame_of[n].variant = "BGRA"
            /\ n \notin Pending)
    /\ [](published = Cardinality(written) /\ (store_by # 0 => store_by \in written))
    /\ [][(/\ Len(frame_of') = Len(frame_of) + 1
           /\ frame_of'[Len(frame_of')].variant \notin { "BGRA", "Err" })
            => /\ tasks' = tasks
               /\ last_frame' = last_frame
               /\ last_frame_lock' = last_frame_lock
               /\ pc' = "stop"]_vars
    /\ [][(/\ starts' = starts + 1
           /\ starts > 0
           /\ frame_of[starts].variant \notin { "BGRA", "Err" })
            => /\ since.stops = 1
               /\ since.slept
               /\ ~since.built
               /\ ~since.resolved
               /\ since.session = Unwrap(capturer').id
               /\ starts \notin Pending \cup written]_vars

\* the first frame was of another variant and nothing was published for it;
\* the same session was started again and its BGRA frame was published
C20_Witness ==
    /\ Len(frame_of) = 2
    /\ frame_of[1].variant = "RGB"
    /\ frame_of[2].variant = "BGRA"
    /\ builds = 1
    /\ written = { 2 }
    /\ store_by = 2
    /\ published = 1

(***************************************************************************)
(* The conversion of frame_to_base64 called on its own: any prior content  *)
(* of the buffer, any source of whole pixels, any number of calls.         *)
(***************************************************************************)
\* four-byte pixels with all bytes different
PixelSet == { <<10, 20, 30, 255>>, <<40, 50, 60, 0>>, <<70, 80, 90, 128>> }

RECURSIVE Flatten(_)
Flatten(pixels) ==
    IF pixels = <<>> THEN <<>> ELSE Head(pixels) \o Flatten(Tail(pixels))

\* sources of 4n bytes
Sources == { Flatten(px) : px \in SeqsUpTo(PixelSet, MaxPixels) }

\* contents of the buffer before the first call
Priors == SeqsUpTo({ 0, 255 }, MaxPrior)

ConvInit ==
    /\ ProgramRest
    /\ ResolveRest
    /\ EncodeRest
    /\ cprior = <<>>
    /\ cbuf \in Priors
    /\ csrc = <<>>
    /\ conv_done = FALSE

\* buffer.clear(); for chunk in bgra_data.chunks_exact(4) { push x 3 }
Convert ==
    /\ \E bgra_data \in Sources :
         /\ cbuf' = ConvertInto(cbuf, bgra_data)
         /\ csrc' = bgra_data
    /\ cprior' = cbuf
    /\ conv_done' = TRUE
    /\ UNCHANGED <<program_vars, resolve_vars, encode_vars>>

ConvSpec == ConvInit /\ [][Convert]_vars

\* C14: after a conversion of a source of 4n bytes the buffer holds 3n
\* bytes, bytes 3i, 3i+1, 3i+2 of it being bytes 4i, 4i+1, 4i+2 of the
\* source, whatever the buffer held before.
C14_ConversionExact ==
    conv_done
      => LET n == Len(csrc) \div 4
         IN  /\ Len(csrc) = 4 * n
             /\ Len(cbuf) = 3 * n
             /\ \A i \in 0 .. n - 1 :
                  /\ cbuf[3 * i + 1] = csrc[4 * i + 1]
                  /\ cbuf[3 * i + 2] = csrc[4 * i + 2]
                  /\ cbuf[3 * i + 3] = csrc[4 * i + 3]

\* a conversion of one pixel into a buffer that held the six bytes of an
\* earlier conversion
C14_Witness ==
    /\ conv_done
    /\ Len(cprior) = 6
    /\ cprior[1] = 40
    /\ Len(csrc) = 4
    /\ cbuf = <<10, 20, 30>>

(***************************************************************************)
(* get_rust_target called on its own, over and over, on enumerations that  *)
(* hold two windows titled "Rust".                                         *)
(***************************************************************************)
ResolveTargets ==
    TargetSet \cup { [kind |-> "Window", id |-> 4, title |-> "Rust"] }

ResolveEnumerations == SeqsUpTo(ResolveTargets, MaxTargets)

ResolveInit == ProgramRest /\ ConvRest /\ EncodeRest /\ ResolveRest

\* scap::get_all_targets().into_iter().find(..)
ResolveCall ==
    /\ \E targets \in ResolveEnumerations :
         /\ enum_now' = targets
         /\ target' = get_rust_target(targets)
    /\ enum_before' = enum_now
    /\ UNCHANGED <<program_vars, conv_vars, encode_vars>>

ResolveSpec == ResolveInit /\ [][ResolveCall]_vars

\* C16: a call returns the first target of the current enumeration that is
\* a window titled "Rust", and none exactly when the current enumeration
\* holds no such target, whatever the enumeration before held.
C16_FirstRustWindow ==
    LET matches == { i \in 1 .. Len(enum_now) :
                       /\ enum_now[i].kind = "Window"
                       /\ enum_now[i].title = "Rust" }
    IN  /\ target = None <=> matches = {}
        /\ matches # {}
             => \E i \in matches :
                  /\ target = Some(enum_now[i])
                  /\ \A j \in 1 .. i - 1 : j \notin matches

\* of two windows titled "Rust" the first is returned, after a call whose
\* enumeration held a display only and no match
C16_Witness ==
    /\ Len(enum_before) = 1
    /\ enum_before[1].kind = "Display"
    /\ Len(enum_now) = 2
    /\ enum_now[1] = [kind |-> "Window", id |-> 4, title |-> "Rust"]
    /\ enum_now[2] = [kind |-> "Window", id |-> 1, title |-> "Rust"]
    /\ target = Some(enum_now[1])

(***************************************************************************)
(* The encoding of frame_to_base64 called on its own on an image of        *)
(* exactly width*height*3 bytes, and a reader that decodes the text.       *)
(***************************************************************************)
SampleBytes == { 0, 77, 255 }

ImageDims ==
    { d \in (1 .. MaxImagePixels) \X (1 .. MaxImagePixels) :
        d[1] * d[2] <= MaxImagePixels }

Images ==
    UNION { { [width |-> d[1], height |-> d[2], buf |-> b] :
                b \in { q \in SeqsUpTo(SampleBytes, 3 * MaxImagePixels) :
                          Len(q) = d[1] * d[2] * 3 } } :
            d \in ImageDims }

\* the reader's decoding of unpadded standard base64: four symbols to three
\* bytes, a last group of two or three symbols to one or two bytes
RECURSIVE base64_decode(_)
base64_decode(text) ==
    IF Len(text) < 2 THEN <<>>
    ELSE IF Len(text) = 2
    THEN <<text[1] * 4 + text[2] \div 16>>
    ELSE IF Len(text) = 3
    THEN <<text[1] * 4 + text[2] \div 16,
           (text[2] % 16) * 16 + text[3] \div 4>>
    ELSE <<text[1] * 4 + text[2] \div 16,
           (text[2] % 16) * 16 + text[3] \div 4,
           (text[3] % 4) * 64 + text[4]>>
         \o base64_decode(SubSeq(text, 5, Len(text)))

\* the reader's decoding of the container written by write_to: the width,
\* the height, and the sample bytes that follow them
png_decode(bytes) ==
    [width  |-> bytes[1] * 16777216 + bytes[2] * 65536 + bytes[3] * 256 + bytes[4],
     height |-> bytes[5] * 16777216 + bytes[6] * 65536 + bytes[7] * 256 + bytes[8],
     buf    |-> SubSeq(bytes, 9, Len(bytes))]

EncodeInit ==
    /\ ProgramRest
    /\ ConvRest
    /\ ResolveRest
    /\ img \in Images
    /\ txt = <<>>
    /\ back = None
    /\ enc_done = FALSE

\* RgbImage::from_raw(..).unwrap(); write_to(.., Png); encoder.encode(..)
Encode ==
    /\ ~enc_done
    /\ LET base64_image == encode_rgb(img.buf, img.width, img.height)
       IN  /\ IsSome(base64_image)
           /\ txt' = Unwrap(base64_image)
    /\ enc_done' = TRUE
    /\ UNCHANGED <<program_vars, conv_vars, resolve_vars, img, back>>

\* a reader of the text
Decode ==
    /\ enc_done
    /\ back = None
    /\ back' = Some(png_decode(base64_decode(txt)))
    /\ UNCHANGED <<program_vars, conv_vars, resolve_vars, img, txt, enc_done>>

EncodeSpec == EncodeInit /\ [][Encode \/ Decode]_vars

=============================================================================
